---- MODULE Spec2Model ----
(***************************************************************************)
(* A model of bdwm-wp-env: the `start` command (lib/commands/start.js),    *)
(* the acquisition of sources (lib/download-sources.js) and the modules    *)
(* they call.  One `start` process runs at a time on one work directory;   *)
(* the work directory (cache file, acquired sources) and the docker        *)
(* services outlive the process.                                           *)
(***************************************************************************)
EXTENDS Integers, Sequences, FiniteSets, TLC

VARIABLES
    config,             \* the resolved configuration of the current run
    update,             \* options.update of the current run
    faulty,             \* whether external operations may fail in this run
    cache,              \* work directory: the cached config_checksum
    cacheAtStart,       \* history: the cache entry when the run began
    prev,               \* history: how the previous run ended
    services,           \* docker: the services that are up
    fs,                 \* file system: path -> what is stored there
    fsAtStart,          \* history: fs when downloadSources was called
    pc,                 \* the await the start() process is suspended at
    failedAt,           \* the step whose rejection start() propagated
    shouldConfigureWp,  \* start.js:62
    mysqlTask,          \* the promise of dockerCompose.upOne( 'mysql' )
    sources,            \* download-sources.js:47, the unique sources
    srcState,           \* the promise of each downloadSource call
    dbReadyAt,          \* the second at which mysql starts to accept
    clock,              \* seconds slept since the first connection check
    dbTries,            \* `tries` of retry( checkDatabaseConnection )
    dbOk,               \* a checkDatabaseConnection call has resolved
    cfgTask,            \* per environment: retry( configureWordPress )
    calls,              \* history: calls made by the current run
    environ,            \* process.env: WP_ENV_PORT and WP_ENV_TESTS_PORT
    coreDir,            \* what fs.readdirSync lists in a local core directory
    compose,            \* the object buildDockerComposeConfig has returned
    published,          \* per service: the port binding docker-compose uses
    acq,                \* the downloadSource call that is followed step by step
    dest                \* what that call finds and leaves at source.path

vars == << config, update, faulty, cache, cacheAtStart, prev, services, fs,
           fsAtStart, pc, failedAt, shouldConfigureWp, mysqlTask, sources,
           srcState, dbReadyAt, clock, dbTries, dbOk, cfgTask, calls,
           environ, coreDir, compose, published, acq, dest >>

\* the variables of the generated docker-compose configuration
topologyVars == << environ, coreDir, compose, published >>

\* the variables of one downloadSource call
acquireVars == << acq, dest >>

(***************************************************************************)
(* Bounds of the model.                                                    *)
(***************************************************************************)
\* the number of source references (core, plugin, theme entries of both
\* environments) of a configuration handed to downloadSources alone
MaxRefs == 3
\* a slow start of the database: it refuses connections for this many
\* seconds
SlowStart == 10
\* the number of times downloadSource is called in sequence for one source
MaxAcquisitions == 2
\* the checksums are the numbers 0..HashMod-1
HashMod == 5
\* the number of objects of a transfer, and the number of times the
\* transferProgress callback is called during one downloadGitSource call
MaxObjects == 2
MaxCallbacks == 2

(***************************************************************************)
(* Program constants.                                                      *)
(***************************************************************************)
DbRetryTimes == 30
DbRetryDelay == 1
SettleDelay == 4
ConfigureTimes == 2

Envs == <<"development", "tests">>
\* the docker-compose service of each environment
EnvServices == {"wordpress", "tests-wordpress"}
ServiceOf(e) == IF e = "development" THEN "wordpress" ELSE "tests-wordpress"
EnvNames == {"development", "tests"}

(***************************************************************************)
(* Source descriptors (WPSource).  A null source is the record NoSource;   *)
(* a local source has no url.                                              *)
(***************************************************************************)
NoSource ==
    [type |-> "null", url |-> "", ref |-> "", path |-> "", basename |-> "",
     testsPath |-> ""]

GitSource(repo, ref) ==
    [type |-> "git", url |-> "https://github.com/" \o repo \o ".git",
     ref |-> ref, path |-> "work/" \o repo \o "#" \o ref, basename |-> repo,
     testsPath |-> "work/tests-" \o repo \o "#" \o ref]

ZipSource(name) ==
    [type |-> "zip", url |-> "https://host/" \o name \o ".zip", ref |-> "",
     path |-> "work/" \o name \o ".zip", basename |-> name,
     testsPath |-> "work/tests-" \o name \o ".zip"]

LocalSource(dir) ==
    [type |-> "local", url |-> "", ref |-> "", path |-> dir, basename |-> dir,
     testsPath |-> "work/tests-" \o dir]

GitA1 == GitSource("A", "r1")
GitA2 == GitSource("A", "r2")
ZipZ == ZipSource("Z")
LocalL == LocalSource("L")

SourcePool == {GitA1, GitA2, ZipZ, LocalL}
Paths == {s.path : s \in SourcePool}

(***************************************************************************)
(* Configurations: config.env[ name ] holds coreSource, pluginSources and  *)
(* themeSources.                                                           *)
(***************************************************************************)
Fields == {"core", "plugin", "theme"}
RefSet == [env : EnvNames, field : Fields, src : SourcePool]
RefSeqs == UNION {[1..n -> RefSet] : n \in 0..MaxRefs}

\* README: the default of "port"
DefaultPort(e) == IF e = "development" THEN 8888 ELSE 8889

RefsOf(rs, e, f) == SelectSeq(rs, LAMBDA r : r.env = e /\ r.field = f)

SrcList(rs) == [i \in 1..Len(rs) |-> rs[i].src]

EnvConfig(rs, e) ==
    LET cores == RefsOf(rs, e, "core")
    IN  [coreSource |-> IF cores = <<>> THEN NoSource
                        ELSE cores[Len(cores)].src,
         pluginSources |-> SrcList(RefsOf(rs, e, "plugin")),
         themeSources |-> SrcList(RefsOf(rs, e, "theme")),
         port |-> DefaultPort(e),
         mappings |-> <<>>]

MkConfig(rs) ==
    [env |-> [e \in EnvNames |-> EnvConfig(rs, e)],
     configDirectoryPath |-> "."]

Ref(e, f, s) == [env |-> e, field |-> f, src |-> s]

\* every source reference of a configuration, in the order downloadSources
\* visits them
EnvRefs(cfg, e) ==
    cfg.env[e].pluginSources \o cfg.env[e].themeSources
        \o <<cfg.env[e].coreSource>>

AllRefs(cfg) == EnvRefs(cfg, Envs[1]) \o EnvRefs(cfg, Envs[2])

(***************************************************************************)
(* downloadSources: the unique array of sources to download.               *)
(***************************************************************************)
Truthy(source) == source.type # "null"

AddedUrls(srcs) == {srcs[i].url : i \in 1..Len(srcs)}

AddSourceNoUrlCheck(srcs, source) ==
    IF Truthy(source) /\ source.url \notin AddedUrls(srcs)
    THEN Append(srcs, source)
    ELSE srcs

AddSource(srcs, source) ==
    IF Truthy(source) /\ source.url # "" /\ source.url \notin AddedUrls(srcs)
    THEN Append(srcs, source)
    ELSE srcs

RECURSIVE AddAll(_, _)
AddAll(srcs, refs) ==
    IF refs = <<>> THEN srcs
    ELSE AddAll(AddSource(srcs, Head(refs)), Tail(refs))

UniqueSources(cfg) == AddAll(<<>>, AllRefs(cfg))

(***************************************************************************)
(* downloadSource: what a completed acquisition leaves at source.path.     *)
(***************************************************************************)
Acquired(source) ==
    IF source.type = "git" THEN "git@" \o source.ref
    ELSE IF source.type = "zip" THEN "unzipped"
    ELSE "unreachable"

DownloadSourceEffect(source, files) ==
    IF source.type = "git" \/ source.type = "zip"
    THEN [files EXCEPT ![source.path] = Acquired(source)]
    ELSE files

InitialFs ==
    [p \in Paths |-> IF p = LocalL.path THEN "user files" ELSE "absent"]

(***************************************************************************)
(* build-docker-compose-config.js: the docker-compose configuration.  A    *)
(* volume is the string `host:container`; a port binding is the sequence   *)
(* of the tokens of its string, so that docker-compose can interpolate it. *)
(***************************************************************************)
\* lib/wordpress hasSameCoreSource: both null, or both at the same path
HasSameCoreSource(a, b) ==
    IF Truthy(a.coreSource) /\ Truthy(b.coreSource)
    THEN a.coreSource.path = b.coreSource.path
    ELSE ~Truthy(a.coreSource) /\ ~Truthy(b.coreSource)

DirectoryMounts(c) ==
    [i \in 1..Len(c.mappings) |->
        c.mappings[i].source.path \o ":/var/www/html/" \o c.mappings[i].wpDir]

PluginMounts(c) ==
    [i \in 1..Len(c.pluginSources) |->
        c.pluginSources[i].path \o ":/var/www/html/wp-content/plugins/"
            \o c.pluginSources[i].basename]

ThemeMounts(c) ==
    [i \in 1..Len(c.themeSources) |->
        c.themeSources[i].path \o ":/var/www/html/wp-content/themes/"
            \o c.themeSources[i].basename]

CoreMountOneDefault(c, wordpressDefault) ==
    (IF Truthy(c.coreSource) THEN c.coreSource.path ELSE "wordpress")
        \o ":/var/www/html"

CoreMount(c, wordpressDefault) ==
    (IF Truthy(c.coreSource) THEN c.coreSource.path ELSE wordpressDefault)
        \o ":/var/www/html"

GetMountsThemesFirst(c, wordpressDefault) ==
    <<CoreMount(c, wordpressDefault)>> \o DirectoryMounts(c)
        \o ThemeMounts(c) \o PluginMounts(c)

GetMounts(c, wordpressDefault) ==
    <<CoreMount(c, wordpressDefault)>> \o DirectoryMounts(c)
        \o PluginMounts(c) \o ThemeMounts(c)

\* the filter of the entries of a local core directory
KeepEveryEntry(filename) == TRUE

KeepEntry(filename) ==
    /\ filename # "wp-config.php"
    /\ filename # "wp-config-sample.php"
    /\ filename # "wp-content"

EntryMounts(wpSource, listing) ==
    LET kept == SelectSeq(listing, KeepEntry)
    IN  [i \in 1..Len(kept) |->
            wpSource.path \o "/" \o kept[i] \o ":/var/www/html/" \o kept[i]]

\* testsMounts after the shift and unshift of the shared core source
TestsMountsLocalOnly(cfg, listing) ==
    LET testsMounts == GetMounts(cfg.env["tests"], "tests-wordpress")
        wpSource == cfg.env["development"].coreSource
    IN  IF /\ wpSource.type = "local"
           /\ HasSameCoreSource(cfg.env["development"], cfg.env["tests"])
        THEN <<wpSource.testsPath \o ":/var/www/html">>
                 \o EntryMounts(wpSource, listing) \o Tail(testsMounts)
        ELSE testsMounts

TestsMountsCoreOnly(cfg, listing) ==
    LET testsMounts == GetMounts(cfg.env["tests"], "tests-wordpress")
        wpSource == cfg.env["development"].coreSource
    IN  IF /\ Truthy(cfg.env["development"].coreSource)
           /\ HasSameCoreSource(cfg.env["development"], cfg.env["tests"])
        THEN <<wpSource.testsPath \o ":/var/www/html">>
                 \o (IF wpSource.type = "local"
                     THEN EntryMounts(wpSource, listing)
                     ELSE <<>>)
        ELSE testsMounts

TestsMounts(cfg, listing) ==
    LET testsMounts == GetMounts(cfg.env["tests"], "tests-wordpress")
        wpSource == cfg.env["development"].coreSource
    IN  IF /\ Truthy(cfg.env["development"].coreSource)
           /\ HasSameCoreSource(cfg.env["development"], cfg.env["tests"])
        THEN <<wpSource.testsPath \o ":/var/www/html">>
                 \o (IF wpSource.type = "local"
                     THEN EntryMounts(wpSource, listing)
                     ELSE <<>>)
                 \o Tail(testsMounts)
        ELSE testsMounts

\* `${VAR:-port}:80`
HardCodedPort(var, port) == <<ToString(port), ":", "80">>

PortBinding(var, port) == <<"${", var, ":-", ToString(port), "}", ":", "80">>

DevelopmentPorts(cfg) ==
    PortBinding("WP_ENV_PORT", cfg.env["development"].port)

TestsPorts(cfg) == PortBinding("WP_ENV_TESTS_PORT", cfg.env["tests"].port)

\* ! config.coreSource, of the configuration itself
NoTopLevelCore(cfg) ==
    ~("coreSource" \in DOMAIN cfg /\ Truthy(cfg.coreSource))

NamedVolumesOfDevelopment(cfg) ==
    (IF ~Truthy(cfg.env["development"].coreSource)
     THEN {"wordpress", "tests-wordpress"} ELSE {})
        \cup {"mysql", "phpunit-uploads"}

NamedVolumes(cfg) ==
    (IF NoTopLevelCore(cfg) THEN {"wordpress"} ELSE {})
        \cup (IF NoTopLevelCore(cfg) THEN {"tests-wordpress"} ELSE {})
        \cup {"mysql", "phpunit-uploads"}

BuildDockerComposeConfig(cfg, listing) ==
    LET developmentMounts == GetMounts(cfg.env["development"], "wordpress")
        testsMounts == TestsMounts(cfg, listing)
    IN  [services |->
            ("mysql" :> [ports |-> << <<"3306">> >>,
                         volumes |-> <<"mysql:/var/lib/mysql">>])
            @@ ("wordpress" :> [ports |-> <<DevelopmentPorts(cfg)>>,
                                volumes |-> developmentMounts])
            @@ ("tests-wordpress" :> [ports |-> <<TestsPorts(cfg)>>,
                                      volumes |-> testsMounts])
            @@ ("cli" :> [ports |-> <<>>, volumes |-> developmentMounts])
            @@ ("tests-cli" :> [ports |-> <<>>, volumes |-> testsMounts])
            @@ ("composer" :>
                   [ports |-> <<>>,
                    volumes |-> <<cfg.configDirectoryPath \o ":/app">>])
            @@ ("phpunit" :>
                   [ports |-> <<>>,
                    volumes |->
                        testsMounts \o
                        <<"phpunit-uploads:/var/www/html/wp-content/uploads">>
                   ]),
         volumes |-> NamedVolumes(cfg)]

\* docker-compose substitutes `${VAR:-default}`: the value of VAR when it is
\* set and not empty, the default otherwise; an unset variable reads ""
Interpolate(binding, env) ==
    IF Len(binding) >= 5 /\ binding[1] = "${" /\ binding[3] = ":-"
    THEN <<IF binding[2] \in DOMAIN env /\ env[binding[2]] # ""
           THEN env[binding[2]]
           ELSE binding[4]>> \o SubSeq(binding, 6, Len(binding))
    ELSE binding

NoEnviron == [WP_ENV_PORT |-> "", WP_ENV_TESTS_PORT |-> ""]

NoCompose == [services |-> <<>>, volumes |-> {}]

NoPublished == <<>>

(***************************************************************************)
(* downloadSource followed step by step: the calls downloadGitSource and   *)
(* downloadZipSource make, and what they find and leave at source.path.    *)
(***************************************************************************)
GitSteps ==
    {"clone", "open", "getRemote", "fetch", "disconnect", "getFetchHead",
     "getRef", "checkoutRef", "setHeadDetached"}

ZipSteps ==
    {"pipeline", "extractZip", "readdir", "rimrafZip", "copyDir",
     "rimrafTemp"}

Steps == GitSteps \cup ZipSteps

\* the top-level entries of the archive, and the files of the destination
ArchiveEntries == {"x", "y"}
DestFiles == {"x", "y", "kept"}

\* the promises of the Promise.all of downloadZipSource
ZipTasks == {"rimrafZip"} \cup ArchiveEntries

NoTasks == [t \in ZipTasks |-> "idle"]

\* the error a library call rejects with; it names no source
RawError(step) == [name |-> "Error", source |-> NoSource, cause |-> step]

NoError == [name |-> "none", source |-> NoSource, cause |-> "none"]

NoHead == [at |-> "none", detached |-> FALSE]

NoAcquisition ==
    [source |-> NoSource, run |-> 0, pc |-> "idle", found |-> FALSE,
     attempts |-> [s \in Steps |-> 0], failures |-> <<>>,
     progress |-> <<>>, reference |-> "none", tasks |-> NoTasks,
     rejection |-> NoError, log |-> <<>>]

\* nothing at source.path, source.path + '.zip' and source.path + '.temp'
NoDestination ==
    [repo |-> FALSE, named |-> TRUE, fetchHead |-> "none", head |-> NoHead,
     zip |-> FALSE, temp |-> FALSE, files |-> [f \in DestFiles |-> "absent"]]

\* the numbers handed to onProgress: a quotient of two integers as `/`
\* computes it, kept as a fraction in lowest terms; 0 / 0 is NaN and a
\* positive number over 0 is Infinity
RECURSIVE Gcd(_, _)
Gcd(a, b) == IF b = 0 THEN a ELSE Gcd(b, a % b)

NaN == [num |-> 0, den |-> 0]

Infinity == [num |-> 1, den |-> 0]

Whole(n) == [num |-> n, den |-> 1]

Divide(n, d) ==
    IF d = 0
    THEN IF n = 0 THEN NaN ELSE Infinity
    ELSE [num |-> n \div Gcd(n, d), den |-> d \div Gcd(n, d)]

\* the transferProgress callback of gitFetchOptions
TransferProgressValue(receivedObjects, indexedObjects, totalObjects) ==
    Divide(receivedObjects + indexedObjects, totalObjects * 2)

\* a call of a step of the current downloadSource call
Attempt(a, step) == [a EXCEPT !.attempts[step] = @ + 1]

\* an await of downloadGitSource or downloadZipSource rejects: the error is
\* the rejection of downloadSource
Rejected(a, step) ==
    [a EXCEPT !.pc = "failed",
              !.failures = Append(@, step),
              !.rejection = RawError(step)]

\* NodeGit.Clone( ... ).catch( () => NodeGit.Repository.open( source.path ) )
CloneRejectedNotCaught(a) == Rejected(a, "clone")

CloneRejected(a) == [a EXCEPT !.pc = "open", !.failures = Append(@, "clone")]

(***************************************************************************)
(* The checksum of a configuration (md5) and the cache file of the work    *)
(* directory.                                                              *)
(***************************************************************************)
SourceCode(s) ==
    IF s = GitA1 THEN 1 ELSE IF s = GitA2 THEN 2 ELSE IF s = ZipZ THEN 3
    ELSE IF s = LocalL THEN 4 ELSE 0

RECURSIVE SeqCode(_)
SeqCode(seq) ==
    IF seq = <<>> THEN 1
    ELSE (SourceCode(Head(seq)) + 3 * SeqCode(Tail(seq))) % HashMod

Md5(cfg) == SeqCode(AllRefs(cfg))

NoCache == -1

DidCacheChange(cached, value) == cached # value

SetCache(cached, value) == value

\* retry( action, { times } ): the attempt that has just failed was the last
RetryExhausted(tries, times) == tries + 1 >= times

(***************************************************************************)
(* start(): the decisions it takes.                                        *)
(***************************************************************************)
ShouldConfigureAlways(upd, changed) == TRUE

ShouldConfigureIgnoringUpdate(upd, changed) == changed

ShouldConfigure(upd, changed) == upd \/ changed

\* start.js:107, config.coreSource === null
PermissionStepRuns(cfg) ==
    "coreSource" \in DOMAIN cfg /\ cfg.coreSource = NoSource

\* an external operation resolves, or (in a run with faults) rejects
Outcomes(f) == IF f THEN {TRUE, FALSE} ELSE {TRUE}

\* the second at which the database starts to accept connections: at once,
\* after a second, after a slow start, at the last retry, or (a fault) later
ReadyTimes(f) ==
    {0, 1, SlowStart, DbRetryTimes - 1} \cup (IF f THEN {DbRetryTimes} ELSE {})

\* the value of the download element of the first Promise.all
DownloadResultNeverSkipped(should, states) ==
    IF \E i \in DOMAIN states : states[i] = "err" THEN "err"
    ELSE IF should /\ \A i \in DOMAIN states : states[i] = "ok" THEN "ok"
    ELSE "pending"

DownloadResult(should, states) ==
    IF ~should THEN "ok"
    ELSE IF \E i \in DOMAIN states : states[i] = "err" THEN "err"
    ELSE IF \A i \in DOMAIN states : states[i] = "ok" THEN "ok"
    ELSE "pending"

\* the value of the first Promise.all
UpResultOfMysqlAlone(mt, should, states) == mt

UpResult(mt, should, states) ==
    LET dl == DownloadResult(should, states)
    IN  IF mt = "err" \/ dl = "err" THEN "err"
        ELSE IF mt = "ok" /\ dl = "ok" THEN "ok"
        ELSE "pending"

ConfigureResultAllSettled(task) ==
    IF \E e \in EnvNames : task[e].state \in {"idle", "running"}
    THEN "pending"
    ELSE "ok"

ConfigureResult(task) ==
    IF \E e \in EnvNames : task[e].state = "err" THEN "err"
    ELSE IF \A e \in EnvNames : task[e].state = "ok" THEN "ok"
    ELSE "pending"

NoCalls ==
    [stop |-> 0, upOne |-> 0, download |-> 0, setup |-> 0, upMany |-> 0,
     perms |-> 0, dbCheck |-> 0, settle |-> 0,
     configure |-> [e \in EnvNames |-> 0], setCache |-> 0]

NoPrev ==
    [result |-> "idle", hash |-> NoCache, should |-> FALSE, stale |-> TRUE]

IdleTasks == [e \in EnvNames |-> [state |-> "idle", tries |-> 0]]

(***************************************************************************)
(* The configurations `start` is run with.                                 *)
(***************************************************************************)
CfgPluginOnly ==
    MkConfig(<<Ref("development", "plugin", LocalL),
               Ref("tests", "plugin", LocalL)>>)

CfgRemote ==
    MkConfig(<<Ref("development", "core", GitA1), Ref("tests", "core", GitA1),
               Ref("development", "plugin", ZipZ)>>)

CfgTwoRefs ==
    MkConfig(<<Ref("development", "core", GitA1),
               Ref("tests", "core", GitA2)>>)

StartConfigs == {CfgPluginOnly, CfgRemote, CfgTwoRefs}

(***************************************************************************)
(* The state before the first `start` on a fresh work directory.           *)
(***************************************************************************)
Init ==
    /\ config = CfgPluginOnly
    /\ update = FALSE
    /\ faulty = FALSE
    /\ cache = NoCache
    /\ cacheAtStart = NoCache
    /\ prev = NoPrev
    /\ services = {}
    /\ fs = InitialFs
    /\ fsAtStart = InitialFs
    /\ pc = "idle"
    /\ failedAt = "none"
    /\ shouldConfigureWp = FALSE
    /\ mysqlTask = "idle"
    /\ sources = <<>>
    /\ srcState = <<>>
    /\ dbReadyAt = 0
    /\ clock = 0
    /\ dbTries = 0
    /\ dbOk = FALSE
    /\ cfgTask = IdleTasks
    /\ calls = NoCalls
    /\ environ = NoEnviron
    /\ coreDir = <<>>
    /\ compose = NoCompose
    /\ published = NoPublished
    /\ acq = NoAcquisition
    /\ dest = NoDestination

Fail(step) ==
    /\ pc' = "failed"
    /\ failedAt' = step

\* start.js:84-90: the rejection of the Promise.all is not caught
UpRejectedSwallowed ==
    /\ pc' = IF shouldConfigureWp THEN "setup" ELSE "upMany"
    /\ UNCHANGED failedAt

UpRejected == Fail("up")

\* the continuation of `await Promise.all( [ upOne, downloadSources ] )`
\* (start.js:84-96), run when one of its promises settles
JoinUp(mt, states) ==
    IF pc # "up" THEN UNCHANGED <<pc, failedAt>>
    ELSE IF UpResult(mt, shouldConfigureWp, states) = "err" THEN UpRejected
    ELSE IF UpResult(mt, shouldConfigureWp, states) = "ok"
         THEN /\ pc' = IF shouldConfigureWp THEN "setup" ELSE "upMany"
              /\ UNCHANGED failedAt
    ELSE UNCHANGED <<pc, failedAt>>

\* the continuation of the Promise.all of start.js:129-141
JoinConfigure(task) ==
    IF pc # "configure" THEN UNCHANGED <<pc, failedAt>>
    ELSE IF ConfigureResult(task) = "err" THEN Fail("configure")
    ELSE IF ConfigureResult(task) = "ok"
         THEN pc' = "setCache" /\ UNCHANGED failedAt
    ELSE UNCHANGED <<pc, failedAt>>

\* start.js:45-57: a new process; checkForLegacyInstall and initConfig
Start(cfg, upd, f) ==
    /\ pc = "idle"
    /\ config' = cfg
    /\ update' = upd
    /\ faulty' = f
    /\ cacheAtStart' = cache
    /\ fsAtStart' = fs
    /\ \E ok \in Outcomes(f) :
          IF ok THEN pc' = "checking" /\ failedAt' = "none"
          ELSE Fail("initConfig")
    /\ UNCHANGED <<topologyVars, acquireVars>>
    /\ UNCHANGED <<cache, prev, services, fs, shouldConfigureWp, mysqlTask,
                   sources, srcState, dbReadyAt, clock, dbTries, dbOk,
                   cfgTask, calls>>

\* start.js:144-145: start() has resolved or rejected and the process ends,
\* and with it every promise that is still pending
Exit ==
    /\ pc \in {"done", "failed"}
    /\ pc' = "idle"
    /\ prev' = IF pc = "failed"
               THEN [result |-> pc, hash |-> Md5(config),
                     should |-> shouldConfigureWp,
                     stale |-> cacheAtStart # Md5(config)]
               ELSE [NoPrev EXCEPT !.result = pc, !.hash = Md5(config)]
    /\ update' = FALSE
    /\ faulty' = FALSE
    /\ cacheAtStart' = cache
    /\ fsAtStart' = fs
    /\ failedAt' = "none"
    /\ shouldConfigureWp' = FALSE
    /\ mysqlTask' = "idle"
    /\ sources' = <<>>
    /\ srcState' = <<>>
    /\ dbReadyAt' = 0
    /\ clock' = 0
    /\ dbTries' = 0
    /\ dbOk' = FALSE
    /\ cfgTask' = IdleTasks
    /\ calls' = NoCalls
    /\ UNCHANGED <<topologyVars, acquireVars>>
    /\ UNCHANGED <<config, cache, services, fs>>

\* start.js:121: the delay of retry( checkDatabaseConnection ), in seconds
AfterNoDelay(c) == c

AfterRetryDelay(c) == c + DbRetryDelay

\* start.js:119-122: the rejection of retry() is not caught
DatabaseNeverReadySwallowed ==
    /\ pc' = "settle"
    /\ UNCHANGED failedAt

DatabaseNeverReady == Fail("db")

\* start.js:117-126: sleep( 4000 ) stands in the catch block
SettleAlways(firstCheckFailed) == 1

SettleCount(firstCheckFailed) == IF firstCheckFailed THEN 1 ELSE 0

AfterDatabaseCheck(firstCheckFailed) ==
    IF SettleCount(firstCheckFailed) = 0 THEN "configure" ELSE "settle"

\* start.js:129-136: each retry() runs on its own
ConfigureRunsUnlessOtherFailed(task, e) ==
    /\ task[e].state = "running"
    /\ \A o \in EnvNames : task[o].state # "err"

ConfigureRuns(task, e) == task[e].state = "running"

\* start.js:79-82: a run that re-provisions awaits stop() first
AfterCheckCacheNoStop(should) == "launch"

AfterCheckCache(should) == IF should THEN "stop" ELSE "launch"

\* start.js:59-66
CheckCache ==
    /\ pc = "checking"
    /\ shouldConfigureWp' =
          ShouldConfigure(update, DidCacheChange(cache, Md5(config)))
    /\ pc' = AfterCheckCache(shouldConfigureWp')
    /\ UNCHANGED <<topologyVars, acquireVars>>
    /\ UNCHANGED <<config, update, faulty, cache, cacheAtStart, prev,
                   services, fs, fsAtStart, failedAt, mysqlTask, sources,
                   srcState, dbReadyAt, clock, dbTries, dbOk, cfgTask,
                   calls>>

\* start.js:79-82
Stop ==
    /\ pc = "stop"
    /\ calls' = [calls EXCEPT !.stop = @ + 1]
    /\ \E ok \in Outcomes(faulty) :
          IF ok
          THEN /\ services' = {}
               /\ pc' = "launch"
               /\ UNCHANGED failedAt
          ELSE /\ Fail("stop")
               /\ UNCHANGED services
    /\ UNCHANGED <<topologyVars, acquireVars>>
    /\ UNCHANGED <<config, update, faulty, cache, cacheAtStart, prev, fs,
                   fsAtStart, shouldConfigureWp, mysqlTask, sources,
                   srcState, dbReadyAt, clock, dbTries, dbOk, cfgTask>>

\* start.js:84-90 up to the await: upOne is called, and downloadSources
\* (download-sources.js:32-70) builds its array and calls downloadSource
PromiseAllUp ==
    /\ pc = "launch"
    /\ pc' = "up"
    /\ mysqlTask' = "pending"
    /\ sources' = IF shouldConfigureWp THEN UniqueSources(config) ELSE <<>>
    /\ srcState' = [i \in DOMAIN sources' |-> "pending"]
    /\ fsAtStart' = fs
    /\ calls' = [calls EXCEPT
                   !.upOne = @ + 1,
                   !.download = IF shouldConfigureWp THEN @ + 1 ELSE @]
    /\ UNCHANGED <<topologyVars, acquireVars>>
    /\ UNCHANGED <<config, update, faulty, cache, cacheAtStart, prev,
                   services, fs, failedAt, shouldConfigureWp, dbReadyAt,
                   clock, dbTries, dbOk, cfgTask>>

\* dockerCompose.upOne( 'mysql' ) settles
MysqlUp ==
    /\ mysqlTask = "pending"
    /\ \E ok \in Outcomes(faulty) :
          /\ mysqlTask' = IF ok THEN "ok" ELSE "err"
          /\ services' = IF ok THEN services \cup {"mysql"} ELSE services
    /\ JoinUp(mysqlTask', srcState)
    /\ UNCHANGED <<topologyVars, acquireVars>>
    /\ UNCHANGED <<config, update, faulty, cache, cacheAtStart, prev, fs,
                   fsAtStart, shouldConfigureWp, sources, srcState,
                   dbReadyAt, clock, dbTries, dbOk, cfgTask, calls>>

\* downloadSource( sources[ i ] ) settles (download-sources.js:82-88)
DownloadSource(i) ==
    /\ i \in DOMAIN srcState
    /\ srcState[i] = "pending"
    /\ \E ok \in Outcomes(faulty) :
          /\ srcState' = [srcState EXCEPT ![i] = IF ok THEN "ok" ELSE "err"]
          /\ fs' = IF ok THEN DownloadSourceEffect(sources[i], fs) ELSE fs
    /\ JoinUp(mysqlTask, srcState')
    /\ UNCHANGED <<topologyVars, acquireVars>>
    /\ UNCHANGED <<config, update, faulty, cache, cacheAtStart, prev,
                   services, fsAtStart, shouldConfigureWp, mysqlTask,
                   sources, dbReadyAt, clock, dbTries, dbOk, cfgTask, calls>>

\* start.js:92-94
SetupWordPressDirectories ==
    /\ pc = "setup"
    /\ calls' = [calls EXCEPT !.setup = @ + 1]
    /\ \E ok \in Outcomes(faulty) :
          IF ok THEN pc' = "upMany" /\ UNCHANGED failedAt
          ELSE Fail("setup")
    /\ UNCHANGED <<topologyVars, acquireVars>>
    /\ UNCHANGED <<config, update, faulty, cache, cacheAtStart, prev,
                   services, fs, fsAtStart, shouldConfigureWp, mysqlTask,
                   sources, srcState, dbReadyAt, clock, dbTries, dbOk,
                   cfgTask>>

\* start.js:98-101: the rejection of upMany is not caught and nothing is
\* stopped; the services that are up stay up
ServicesStopped(svcs) == {}

ServicesLeftRunning(svcs) == svcs

\* start.js:98-104: dockerCompose.upMany settles
UpMany ==
    /\ pc = "upMany"
    /\ calls' = [calls EXCEPT !.upMany = @ + 1]
    /\ \E ok \in Outcomes(faulty) :
          IF ok
          THEN /\ services' =
                     services \cup {"mysql", "wordpress", "tests-wordpress"}
               /\ pc' = IF shouldConfigureWp THEN "perms" ELSE "done"
               /\ UNCHANGED failedAt
          ELSE /\ Fail("upMany")
               /\ services' = ServicesLeftRunning(services)
    /\ UNCHANGED <<topologyVars, acquireVars>>
    /\ UNCHANGED <<config, update, faulty, cache, cacheAtStart, prev, fs,
                   fsAtStart, shouldConfigureWp, mysqlTask, sources,
                   srcState, dbReadyAt, clock, dbTries, dbOk, cfgTask>>

\* start.js:107-113: makeContentDirectoriesWritable for both environments
MakeContentDirectoriesWritable ==
    /\ pc = "perms"
    /\ LET runs == PermissionStepRuns(config)
       IN  /\ calls' = [calls EXCEPT !.perms = IF runs THEN @ + 2 ELSE @]
           /\ \E ok \in (IF runs THEN Outcomes(faulty) ELSE {TRUE}) :
                 IF ok THEN pc' = "db" /\ UNCHANGED failedAt
                 ELSE Fail("perms")
    /\ UNCHANGED <<topologyVars, acquireVars>>
    /\ UNCHANGED <<config, update, faulty, cache, cacheAtStart, prev,
                   services, fs, fsAtStart, shouldConfigureWp, mysqlTask,
                   sources, srcState, dbReadyAt, clock, dbTries, dbOk,
                   cfgTask>>

\* the two retry( configureWordPress ) calls of start.js:129-136 are made
RunningTasks == [e \in EnvNames |-> [state |-> "running", tries |-> 0]]

\* start.js:115-117: the first checkDatabaseConnection settles; mysql starts
\* to accept connections dbReadyAt seconds after this call
CheckDatabaseConnection ==
    /\ pc = "db"
    /\ calls' = [calls EXCEPT !.dbCheck = @ + 1]
    /\ \E r \in ReadyTimes(faulty) :
          /\ dbReadyAt' = r
          /\ IF r <= clock
             THEN /\ dbOk' = TRUE
                  /\ pc' = AfterDatabaseCheck(FALSE)
                  /\ cfgTask' = IF pc' = "configure" THEN RunningTasks
                                 ELSE cfgTask
             ELSE /\ pc' = "dbRetry"
                  /\ UNCHANGED <<dbOk, cfgTask>>
    /\ UNCHANGED <<topologyVars, acquireVars>>
    /\ UNCHANGED <<config, update, faulty, cache, cacheAtStart, prev,
                   services, fs, fsAtStart, failedAt, shouldConfigureWp,
                   mysqlTask, sources, srcState, clock, dbTries>>

\* start.js:119-122: one attempt of retry( checkDatabaseConnection ) and,
\* when it fails with attempts left, the delay that follows it
RetryCheckDatabaseConnection ==
    /\ pc = "dbRetry"
    /\ calls' = [calls EXCEPT !.dbCheck = @ + 1]
    /\ IF dbReadyAt <= clock
       THEN /\ dbOk' = TRUE
            /\ pc' = AfterDatabaseCheck(TRUE)
            /\ cfgTask' = IF pc' = "configure" THEN RunningTasks ELSE cfgTask
            /\ UNCHANGED <<failedAt, dbTries, clock>>
       ELSE /\ dbTries' = dbTries + 1
            /\ IF RetryExhausted(dbTries, DbRetryTimes)
               THEN DatabaseNeverReady /\ UNCHANGED clock
               ELSE /\ clock' = AfterRetryDelay(clock)
                    /\ UNCHANGED <<pc, failedAt>>
            /\ UNCHANGED <<dbOk, cfgTask>>
    /\ UNCHANGED <<topologyVars, acquireVars>>
    /\ UNCHANGED <<config, update, faulty, cache, cacheAtStart, prev,
                   services, fs, fsAtStart, shouldConfigureWp, mysqlTask,
                   sources, srcState, dbReadyAt>>

\* start.js:124-125: sleep( 4000 )
Settle ==
    /\ pc = "settle"
    /\ clock' = clock + SettleDelay
    /\ calls' = [calls EXCEPT !.settle = @ + 1]
    /\ pc' = "configure"
    /\ cfgTask' = RunningTasks
    /\ UNCHANGED <<topologyVars, acquireVars>>
    /\ UNCHANGED <<config, update, faulty, cache, cacheAtStart, prev,
                   services, fs, fsAtStart, failedAt, shouldConfigureWp,
                   mysqlTask, sources, srcState, dbReadyAt, dbTries, dbOk>>

\* the state of retry( configureWordPress, { times: 2 } ) after an attempt
AfterAttempt(task, e, ok) ==
    IF ok THEN [task EXCEPT ![e].state = "ok"]
    ELSE IF RetryExhausted(task[e].tries, ConfigureTimes)
         THEN [task EXCEPT ![e].state = "err", ![e].tries = @ + 1]
    ELSE [task EXCEPT ![e].tries = @ + 1]

\* start.js:129-136: one attempt of retry( configureWordPress( e ) ) settles
ConfigureWordPress(e) ==
    /\ ConfigureRuns(cfgTask, e)
    /\ calls' = [calls EXCEPT !.configure[e] = @ + 1]
    /\ \E ok \in Outcomes(faulty) : cfgTask' = AfterAttempt(cfgTask, e, ok)
    /\ JoinConfigure(cfgTask')
    /\ UNCHANGED <<topologyVars, acquireVars>>
    /\ UNCHANGED <<config, update, faulty, cache, cacheAtStart, prev,
                   services, fs, fsAtStart, shouldConfigureWp, mysqlTask,
                   sources, srcState, dbReadyAt, clock, dbTries, dbOk>>

\* start.js:138-144: setCache settles
WriteCache ==
    /\ pc = "setCache"
    /\ calls' = [calls EXCEPT !.setCache = @ + 1]
    /\ \E ok \in Outcomes(faulty) :
          IF ok
          THEN /\ cache' = SetCache(cache, Md5(config))
               /\ pc' = "done"
               /\ UNCHANGED failedAt
          ELSE /\ Fail("setCache")
               /\ UNCHANGED cache
    /\ UNCHANGED <<topologyVars, acquireVars>>
    /\ UNCHANGED <<config, update, faulty, cacheAtStart, prev, services, fs,
                   fsAtStart, shouldConfigureWp, mysqlTask, sources,
                   srcState, dbReadyAt, clock, dbTries, dbOk, cfgTask>>

Next ==
    \/ \E cfg \in StartConfigs, upd \in BOOLEAN, f \in BOOLEAN :
          Start(cfg, upd, f)
    \/ Exit
    \/ CheckCache
    \/ Stop
    \/ PromiseAllUp
    \/ MysqlUp
    \/ \E i \in 1..Len(srcState) : DownloadSource(i)
    \/ SetupWordPressDirectories
    \/ UpMany
    \/ MakeContentDirectoriesWritable
    \/ CheckDatabaseConnection
    \/ RetryCheckDatabaseConnection
    \/ Settle
    \/ \E e \in EnvNames : ConfigureWordPress(e)
    \/ WriteCache

Spec == Init /\ [][Next]_vars

\* every step of a started process is eventually taken: the event loop runs
\* each settled promise's continuation
LiveSpec == Init /\ [][Next]_vars /\ WF_vars(Next)

(***************************************************************************)
(* downloadSources alone: a re-provisioning run that has stopped the       *)
(* services and is about to call upOne and downloadSources, for every      *)
(* configuration of at most MaxRefs source references.                     *)
(***************************************************************************)
InitDownload ==
    /\ \E rs \in RefSeqs : config = MkConfig(rs)
    /\ update = FALSE
    /\ faulty \in BOOLEAN
    /\ cache = NoCache
    /\ cacheAtStart = NoCache
    /\ prev = NoPrev
    /\ services = {}
    /\ fs = InitialFs
    /\ fsAtStart = InitialFs
    /\ pc = "launch"
    /\ failedAt = "none"
    /\ shouldConfigureWp = TRUE
    /\ mysqlTask = "idle"
    /\ sources = <<>>
    /\ srcState = <<>>
    /\ dbReadyAt = 0
    /\ clock = 0
    /\ dbTries = 0
    /\ dbOk = FALSE
    /\ cfgTask = IdleTasks
    /\ calls = [NoCalls EXCEPT !.stop = 1]
    /\ environ = NoEnviron
    /\ coreDir = <<>>
    /\ compose = NoCompose
    /\ published = NoPublished
    /\ acq = NoAcquisition
    /\ dest = NoDestination

NextDownload ==
    \/ PromiseAllUp
    \/ MysqlUp
    \/ \E i \in 1..Len(srcState) : DownloadSource(i)

SpecDownload == InitDownload /\ [][NextDownload]_vars

(***************************************************************************)
(* buildDockerComposeConfig alone: the configuration is built from a       *)
(* resolved configuration, and docker-compose then interpolates the port   *)
(* bindings with the environment of the process.                           *)
(***************************************************************************)
LocalM == LocalSource("M")

TopologyCores == {NoSource, LocalL, LocalM, GitA1, ZipZ}

TopologyPlugins == {<<>>, <<LocalL, ZipZ>>}

TopologyMappings ==
    {<<>>, <<[wpDir |-> "wp-content/mu-plugins", source |-> LocalM]>>}

\* "port" of the configuration file, and the value of a port variable
ConfigPorts == {8888, 8889, 4013}
EnvPortValues == {"", "9999"}

\* the entries a core directory can hold, in the order readdirSync lists them
EntryOrder ==
    <<"index.php", "wp-admin", "wp-config-sample.php", "wp-config.php",
      "wp-content">>

Range(seq) == {seq[i] : i \in 1..Len(seq)}

Listings ==
    {SelectSeq(EntryOrder, LAMBDA f : f \in S) : S \in SUBSET Range(EntryOrder)}

TopologyConfig(dc, tc, tp, mp, dport, tport) ==
    [MkConfig(<<>>) EXCEPT
        !.env["development"].coreSource = dc,
        !.env["development"].pluginSources = <<LocalL>>,
        !.env["development"].mappings = mp,
        !.env["development"].port = dport,
        !.env["tests"].coreSource = tc,
        !.env["tests"].pluginSources = tp,
        !.env["tests"].themeSources = <<GitA2>>,
        !.env["tests"].mappings = mp,
        !.env["tests"].port = tport]

InitTopology ==
    /\ \E dc, tc \in TopologyCores, tp \in TopologyPlugins,
          mp \in TopologyMappings, dport, tport \in ConfigPorts :
          /\ dport # tport
          /\ config = TopologyConfig(dc, tc, tp, mp, dport, tport)
    /\ environ \in [{"WP_ENV_PORT", "WP_ENV_TESTS_PORT"} -> EnvPortValues]
    /\ coreDir \in IF config.env["development"].coreSource.type = "local"
                   THEN Listings ELSE {<<>>}
    /\ compose = NoCompose
    /\ published = NoPublished
    /\ acq = NoAcquisition
    /\ dest = NoDestination
    /\ update = FALSE
    /\ faulty = FALSE
    /\ cache = NoCache
    /\ cacheAtStart = NoCache
    /\ prev = NoPrev
    /\ services = {}
    /\ fs = InitialFs
    /\ fsAtStart = InitialFs
    /\ pc = "idle"
    /\ failedAt = "none"
    /\ shouldConfigureWp = FALSE
    /\ mysqlTask = "idle"
    /\ sources = <<>>
    /\ srcState = <<>>
    /\ dbReadyAt = 0
    /\ clock = 0
    /\ dbTries = 0
    /\ dbOk = FALSE
    /\ cfgTask = IdleTasks
    /\ calls = NoCalls

startVars ==
    << config, update, faulty, cache, cacheAtStart, prev, services, fs,
       fsAtStart, pc, failedAt, shouldConfigureWp, mysqlTask, sources,
       srcState, dbReadyAt, clock, dbTries, dbOk, cfgTask, calls >>

\* buildDockerComposeConfig( config ) returns
BuildCompose ==
    /\ compose = NoCompose
    /\ compose' = BuildDockerComposeConfig(config, coreDir)
    /\ UNCHANGED <<startVars, environ, coreDir, published, acquireVars>>

\* docker-compose reads the configuration and publishes the ports of the
\* two WordPress services
ComposeUp ==
    /\ compose # NoCompose
    /\ published = NoPublished
    /\ published' =
          [s \in EnvServices |->
              Interpolate(compose.services[s].ports[1], environ)]
    /\ UNCHANGED <<startVars, environ, coreDir, compose, acquireVars>>

NextTopology == BuildCompose \/ ComposeUp

SpecTopology == InitTopology /\ [][NextTopology]_vars

(***************************************************************************)
(* downloadSource alone: it is called MaxAcquisitions times in sequence    *)
(* for one source, each call in a process of its own.                      *)
(***************************************************************************)
AcquiredSources == {GitA1, ZipZ, LocalL}

\* what a destination can hold before the first call
Destinations(source) ==
    IF source.type = "git"
    THEN {[NoDestination EXCEPT !.repo = r, !.named = n,
                                !.fetchHead = IF r THEN fh ELSE "none",
                                !.head = IF r THEN [at |-> "default",
                                                    detached |-> FALSE]
                                         ELSE NoHead] :
             r \in BOOLEAN, n \in BOOLEAN, fh \in {"none", source.ref}}
    ELSE IF source.type = "zip"
    THEN {[NoDestination EXCEPT !.files = fl] :
             fl \in [DestFiles -> {"absent", "old"}]}
    ELSE {NoDestination}

InitAcquire ==
    /\ \E s \in AcquiredSources :
          /\ acq = [NoAcquisition EXCEPT !.source = s]
          /\ dest \in Destinations(s)
    /\ faulty \in BOOLEAN
    /\ config = CfgPluginOnly
    /\ update = FALSE
    /\ cache = NoCache
    /\ cacheAtStart = NoCache
    /\ prev = NoPrev
    /\ services = {}
    /\ fs = InitialFs
    /\ fsAtStart = InitialFs
    /\ pc = "idle"
    /\ failedAt = "none"
    /\ shouldConfigureWp = FALSE
    /\ mysqlTask = "idle"
    /\ sources = <<>>
    /\ srcState = <<>>
    /\ dbReadyAt = 0
    /\ clock = 0
    /\ dbTries = 0
    /\ dbOk = FALSE
    /\ cfgTask = IdleTasks
    /\ calls = NoCalls
    /\ environ = NoEnviron
    /\ coreDir = <<>>
    /\ compose = NoCompose
    /\ published = NoPublished

AcquireFrame == UNCHANGED <<startVars, topologyVars>>

\* what a settled call is remembered by
Summary(a) ==
    [result |-> a.pc, found |-> a.found, attempts |-> a.attempts,
     failures |-> a.failures, rejection |-> a.rejection]

\* downloadSource( source, options ) is called (download-sources.js:82-88);
\* downloadGitSource and downloadZipSource begin with onProgress( 0 )
CallDownloadSource ==
    /\ acq.pc \in {"idle", "done", "failed"}
    /\ acq.run < MaxAcquisitions
    /\ acq' = [NoAcquisition EXCEPT
                  !.source = acq.source,
                  !.run = acq.run + 1,
                  !.found = dest.repo,
                  !.log = IF acq.run = 0 THEN <<>>
                          ELSE Append(acq.log, Summary(acq)),
                  !.pc = IF acq.source.type = "git" THEN "clone"
                         ELSE IF acq.source.type = "zip" THEN "pipeline"
                         ELSE "done",
                  !.progress = IF acq.source.type \in {"git", "zip"}
                               THEN <<Whole(0)>> ELSE <<>>]
    /\ dest' = IF acq.source.type = "zip"
               THEN [dest EXCEPT !.zip = TRUE]
               ELSE dest
    /\ AcquireFrame

\* NodeGit.Clone settles: it rejects when source.path holds a repository
Clone ==
    /\ acq.pc = "clone"
    /\ \E ok \in (IF dest.repo THEN {FALSE} ELSE Outcomes(faulty)) :
          IF ok
          THEN /\ acq' = [Attempt(acq, "clone") EXCEPT !.pc = "getRemote"]
               /\ dest' = [dest EXCEPT
                              !.repo = TRUE,
                              !.head = [at |-> "default",
                                        detached |-> FALSE]]
          ELSE /\ acq' = CloneRejected(Attempt(acq, "clone"))
               /\ UNCHANGED dest
    /\ AcquireFrame

\* NodeGit calls transferProgress while Clone or remote.fetch transfers
\* objects: of totalObjects objects, receivedObjects have been received and
\* indexedObjects of those indexed
TransferProgress ==
    /\ acq.pc \in {"clone", "fetch"}
    /\ acq.pc = "clone" => ~dest.repo
    /\ Len(acq.progress) <= MaxCallbacks
    /\ \E totalObjects \in 0..MaxObjects :
          \E receivedObjects \in 0..totalObjects :
             \E indexedObjects \in 0..receivedObjects :
                acq' = [acq EXCEPT
                           !.progress =
                              Append(@, TransferProgressValue(
                                            receivedObjects, indexedObjects,
                                            totalObjects))]
    /\ UNCHANGED dest
    /\ AcquireFrame

\* NodeGit.Repository.open settles: it rejects when there is no repository
RepositoryOpen ==
    /\ acq.pc = "open"
    /\ \E ok \in (IF dest.repo THEN Outcomes(faulty) ELSE {FALSE}) :
          acq' = IF ok
                 THEN [Attempt(acq, "open") EXCEPT !.pc = "getRemote"]
                 ELSE Rejected(Attempt(acq, "open"), "open")
    /\ UNCHANGED dest
    /\ AcquireFrame

\* repository.getRemote( 'origin' ) settles
GetRemote ==
    /\ acq.pc = "getRemote"
    /\ \E ok \in Outcomes(faulty) :
          acq' = IF ok
                 THEN [Attempt(acq, "getRemote") EXCEPT !.pc = "fetch"]
                 ELSE Rejected(Attempt(acq, "getRemote"), "getRemote")
    /\ UNCHANGED dest
    /\ AcquireFrame

\* remote.fetch( source.ref ) settles; git does not always update FETCH_HEAD
Fetch ==
    /\ acq.pc = "fetch"
    /\ \E ok \in Outcomes(faulty) :
          IF ok
          THEN /\ acq' = [Attempt(acq, "fetch") EXCEPT !.pc = "disconnect"]
               /\ \E fh \in {acq.source.ref, dest.fetchHead} :
                     dest' = [dest EXCEPT !.fetchHead = fh]
          ELSE /\ acq' = Rejected(Attempt(acq, "fetch"), "fetch")
               /\ UNCHANGED dest
    /\ AcquireFrame

\* remote.disconnect() settles
Disconnect ==
    /\ acq.pc = "disconnect"
    /\ \E ok \in Outcomes(faulty) :
          acq' = IF ok
                 THEN [Attempt(acq, "disconnect") EXCEPT
                          !.pc = "getFetchHead"]
                 ELSE Rejected(Attempt(acq, "disconnect"), "disconnect")
    /\ UNCHANGED dest
    /\ AcquireFrame

\* getReference( 'FETCH_HEAD' ).catch( getReference.bind( repository,
\* source.ref ) )
FetchHeadRejectedNoSecondTry(a) ==
    [a EXCEPT !.pc = "setHeadDetached",
              !.failures = Append(@, "getFetchHead")]

FetchHeadRejected(a) ==
    [a EXCEPT !.pc = "getRef", !.failures = Append(@, "getFetchHead")]

\* repository.getReference( 'FETCH_HEAD' ) settles; its rejection is caught
GetReferenceFetchHead ==
    /\ acq.pc = "getFetchHead"
    /\ \E ok \in (IF dest.fetchHead = "none" THEN {FALSE}
                  ELSE Outcomes(faulty)) :
          acq' = IF ok
                 THEN [Attempt(acq, "getFetchHead") EXCEPT
                          !.pc = "checkoutRef", !.reference = "FETCH_HEAD"]
                 ELSE FetchHeadRejected(Attempt(acq, "getFetchHead"))
    /\ UNCHANGED dest
    /\ AcquireFrame

\* repository.getReference( source.ref ) settles; its rejection is caught by
\* the try block
GetReferenceRef ==
    /\ acq.pc = "getRef"
    /\ \E ok \in (IF dest.named THEN Outcomes(faulty) ELSE {FALSE}) :
          acq' = IF ok
                 THEN [Attempt(acq, "getRef") EXCEPT
                          !.pc = "checkoutRef", !.reference = acq.source.ref]
                 ELSE [Attempt(acq, "getRef") EXCEPT
                          !.pc = "setHeadDetached",
                          !.failures = Append(@, "getRef")]
    /\ UNCHANGED dest
    /\ AcquireFrame

\* what a reference of the repository points at
Target(reference, d) ==
    IF reference = "FETCH_HEAD" THEN d.fetchHead ELSE reference

\* repository.checkoutRef( reference, FORCE ) settles; its rejection is
\* caught; then onProgress( 1 )
CheckoutRef ==
    /\ acq.pc = "checkoutRef"
    /\ \E ok \in Outcomes(faulty) :
          IF ok
          THEN /\ acq' = [Attempt(acq, "checkoutRef") EXCEPT
                             !.pc = "done",
                             !.progress = Append(@, Whole(1))]
               /\ dest' = [dest EXCEPT
                              !.head = [at |-> Target(acq.reference, dest),
                                        detached |-> FALSE]]
          ELSE /\ acq' = [Attempt(acq, "checkoutRef") EXCEPT
                             !.pc = "setHeadDetached",
                             !.failures = Append(@, "checkoutRef")]
               /\ UNCHANGED dest
    /\ AcquireFrame

\* repository.setHeadDetached( source.ref ) settles; then onProgress( 1 )
SetHeadDetached ==
    /\ acq.pc = "setHeadDetached"
    /\ \E ok \in Outcomes(faulty) :
          IF ok
          THEN /\ acq' = [Attempt(acq, "setHeadDetached") EXCEPT
                             !.pc = "done",
                             !.progress = Append(@, Whole(1))]
               /\ dest' = [dest EXCEPT
                              !.head = [at |-> acq.source.ref,
                                        detached |-> TRUE]]
          ELSE /\ acq' = Rejected(Attempt(acq, "setHeadDetached"),
                                  "setHeadDetached")
               /\ UNCHANGED dest
    /\ AcquireFrame

\* pipeline( responseStream, zipFile ) settles
Pipeline ==
    /\ acq.pc = "pipeline"
    /\ \E ok \in Outcomes(faulty) :
          acq' = IF ok
                 THEN [Attempt(acq, "pipeline") EXCEPT !.pc = "extractZip"]
                 ELSE Rejected(Attempt(acq, "pipeline"), "pipeline")
    /\ UNCHANGED dest
    /\ AcquireFrame

\* extractZip( zipName, { dir: dirName } ) settles; the elements of the
\* array handed to Promise.all are evaluated in order: rimraf( zipName ) is
\* called, then fs.promises.readdir( dirName ) is called and awaited
ExtractZip ==
    /\ acq.pc = "extractZip"
    /\ dest' = [dest EXCEPT !.temp = TRUE]
    /\ \E ok \in Outcomes(faulty) :
          acq' = IF ok
                 THEN [Attempt(acq, "extractZip") EXCEPT
                          !.pc = "readdir",
                          !.tasks["rimrafZip"] = "pending"]
                 ELSE Rejected(Attempt(acq, "extractZip"), "extractZip")
    /\ AcquireFrame

\* the continuation of the Promise.all of downloadZipSource
JoinCopyFirstSettled(a, step) ==
    IF a.pc # "copy" THEN a
    ELSE IF \E t \in ZipTasks : a.tasks[t] = "err" THEN Rejected(a, step)
    ELSE IF \E t \in ZipTasks : a.tasks[t] = "ok"
         THEN [a EXCEPT !.pc = "rimrafTemp"]
    ELSE a

JoinCopy(a, step) ==
    IF a.pc # "copy" THEN a
    ELSE IF \E t \in ZipTasks : a.tasks[t] = "err" THEN Rejected(a, step)
    ELSE IF \A t \in ZipTasks : a.tasks[t] = "ok"
         THEN [a EXCEPT !.pc = "rimrafTemp"]
    ELSE a

\* fs.promises.readdir( dirName ) settles; a copyDir is called for each entry
\* and Promise.all is called
ReadDir ==
    /\ acq.pc = "readdir"
    /\ \E ok \in Outcomes(faulty) :
          acq' = IF ok
                 THEN JoinCopy([Attempt(acq, "readdir") EXCEPT
                                   !.pc = "copy",
                                   !.tasks = [t \in ZipTasks |->
                                                 IF t \in ArchiveEntries
                                                 THEN "pending"
                                                 ELSE acq.tasks[t]]],
                               "rimrafZip")
                 ELSE Rejected(Attempt(acq, "readdir"), "readdir")
    /\ UNCHANGED dest
    /\ AcquireFrame

\* rimraf( zipName ) settles
RimrafZip ==
    /\ acq.tasks["rimrafZip"] = "pending"
    /\ \E ok \in Outcomes(faulty) :
          /\ acq' = JoinCopy([Attempt(acq, "rimrafZip") EXCEPT
                                 !.tasks["rimrafZip"] =
                                     IF ok THEN "ok" ELSE "err"],
                             "rimrafZip")
          /\ dest' = IF ok THEN [dest EXCEPT !.zip = FALSE] ELSE dest
    /\ AcquireFrame

\* copyDir( path.join( dirName, file ), source.path ) settles
CopyDir(file) ==
    /\ acq.tasks[file] = "pending"
    /\ \E ok \in Outcomes(faulty) :
          /\ acq' = JoinCopy([Attempt(acq, "copyDir") EXCEPT
                                 !.tasks[file] = IF ok THEN "ok" ELSE "err"],
                             "copyDir")
          /\ dest' = IF ok THEN [dest EXCEPT !.files[file] = "new"] ELSE dest
    /\ AcquireFrame

\* rimraf( dirName ) settles; then onProgress( 1 )
RimrafTemp ==
    /\ acq.pc = "rimrafTemp"
    /\ \E ok \in Outcomes(faulty) :
          IF ok
          THEN /\ acq' = [Attempt(acq, "rimrafTemp") EXCEPT
                             !.pc = "done",
                             !.progress = Append(@, Whole(1))]
               /\ dest' = [dest EXCEPT !.temp = FALSE]
          ELSE /\ acq' = Rejected(Attempt(acq, "rimrafTemp"), "rimrafTemp")
               /\ UNCHANGED dest
    /\ AcquireFrame

NextAcquire ==
    \/ CallDownloadSource
    \/ Clone
    \/ TransferProgress
    \/ RepositoryOpen
    \/ GetRemote
    \/ Fetch
    \/ Disconnect
    \/ GetReferenceFetchHead
    \/ GetReferenceRef
    \/ CheckoutRef
    \/ SetHeadDetached
    \/ Pipeline
    \/ ExtractZip
    \/ ReadDir
    \/ RimrafZip
    \/ \E file \in ArchiveEntries : CopyDir(file)
    \/ RimrafTemp

SpecAcquire == InitAcquire /\ [][NextAcquire]_vars

(***************************************************************************)
(* Properties of `start`.                                                  *)
(***************************************************************************)
AllServices == {"mysql", "wordpress", "tests-wordpress"}

\* shouldConfigureWp has been computed in the current run
Checked == pc \notin {"idle", "checking"} /\ failedAt # "initConfig"

ProvisioningCalls ==
    calls.stop + calls.download + calls.setup + calls.perms + calls.dbCheck
        + calls.configure["development"] + calls.configure["tests"]
        + calls.setCache

\* the current run follows a run that completed, has the same checksum and
\* no update flag
SecondStartUnchanged ==
    /\ pc # "idle"
    /\ prev.result = "done"
    /\ prev.hash = Md5(config)
    /\ ~update

\* C1: a `start` that follows a successful `start` with the same checksum
\* and has no update flag calls neither stop, downloadSources,
\* setupWordPressDirectories, makeContentDirectoriesWritable,
\* checkDatabaseConnection, configureWordPress nor setCache; it brings up
\* mysql, then wordpress and tests-wordpress, and fails only if initConfig or
\* a docker-compose call fails.
C1_SecondStartSkips ==
    SecondStartUnchanged =>
        /\ ProvisioningCalls = 0
        /\ sources = <<>>
        /\ fs = fsAtStart
        /\ cache = cacheAtStart
        /\ pc \in {"checking", "launch", "up", "upMany", "done", "failed"}
        /\ (calls.upMany > 0 => mysqlTask = "ok")
        /\ (pc = "done" =>
               /\ calls.upOne = 1
               /\ calls.upMany = 1
               /\ AllServices \subseteq services)
        /\ (pc = "failed" =>
               faulty /\ failedAt \in {"initConfig", "up", "upMany"})

C1_Witness == SecondStartUnchanged /\ pc = "done" /\ calls.upMany = 1

\* the cache entry is written only by a setCache that follows a successful
\* connection check and a successful configuration of both environments,
\* and a failed run leaves it as it was
CacheWrittenOnlyAtEnd ==
    /\ (calls.setCache > 0 =>
           /\ dbOk
           /\ \A e \in EnvNames :
                 cfgTask[e].state = "ok" /\ calls.configure[e] >= 1)
    /\ (cache # cacheAtStart =>
           pc = "done" /\ shouldConfigureWp /\ cache = Md5(config))
    /\ (pc = "failed" => cache = cacheAtStart)

\* the current run follows a re-provisioning run of the same checksum that
\* failed
AfterFailedProvisioning ==
    /\ Checked
    /\ prev.result = "failed"
    /\ prev.should
    /\ prev.hash = Md5(config)

\* C2 as claimed: the cache entry is written only at the end of a run whose
\* database check and both configurations succeeded, a failed run leaves it
\* untouched, and the next `start` with the same configuration therefore
\* re-provisions.
C2_Original ==
    /\ CacheWrittenOnlyAtEnd
    /\ (AfterFailedProvisioning => shouldConfigureWp)

\* C2, amended: as claimed, but the next `start` with the same configuration
\* re-provisions exactly when the entry was absent or different before the
\* failed run, or when that next `start` has the update flag.
C2_CacheWrittenOnSuccessOnly ==
    /\ CacheWrittenOnlyAtEnd
    /\ (AfterFailedProvisioning =>
           (shouldConfigureWp <=> (prev.stale \/ update)))

C2_Witness ==
    /\ AfterFailedProvisioning
    /\ prev.stale
    /\ ~update
    /\ pc = "done"
    /\ cache # cacheAtStart

\* C3: with update the re-provisioning path runs whatever the cached
\* checksum is; without update it runs exactly when the cached checksum is
\* absent or differs from the checksum of the configuration.  A completed
\* run has made every call of the path, or none of them.
C3_UpdateForcesProvisioning ==
    Checked =>
        /\ (update => shouldConfigureWp)
        /\ (~update =>
               (shouldConfigureWp <=>
                   (cacheAtStart = NoCache \/ cacheAtStart # Md5(config))))
        /\ (~shouldConfigureWp => ProvisioningCalls = 0)
        /\ (pc = "done" /\ shouldConfigureWp =>
               /\ calls.stop = 1
               /\ calls.download = 1
               /\ calls.setup = 1
               /\ \A e \in EnvNames : calls.configure[e] >= 1
               /\ calls.setCache = 1)

C3_Witness ==
    /\ update
    /\ cacheAtStart = Md5(config)
    /\ pc = "done"
    /\ calls.setCache = 1

(***************************************************************************)
(* Properties of downloadSources.                                          *)
(***************************************************************************)
\* the descriptors a configuration refers to
RefSources(cfg) == {AllRefs(cfg)[i] : i \in 1..Len(AllRefs(cfg))} \ {NoSource}

Remote(d) == d.type \in {"git", "zip"}

\* the same repository and ref, or the same archive URL
SameOrigin(a, b) == a.type = b.type /\ a.url = b.url /\ a.ref = b.ref

\* the downloadSource calls made for descriptors of the origin of d
Invocations(d) ==
    Cardinality({i \in DOMAIN sources : SameOrigin(sources[i], d)})

\* C4 as claimed: one call of downloadSources calls downloadSource exactly
\* once for the descriptors of one repository and ref, or of one archive
\* URL, and at most once for one destination path.
C4_Original ==
    calls.download = 1 =>
        /\ \A d \in RefSources(config) : Remote(d) => Invocations(d) = 1
        /\ \A i, j \in DOMAIN sources :
              sources[i].path = sources[j].path => i = j

\* C5: downloadSources calls downloadSource for no local descriptor, what is
\* stored at a local path stays as it was, a configuration with local
\* sources only leaves every path as it was, and its download resolves.
C5_LocalSourcesUntouched ==
    calls.download = 1 =>
        /\ \A i \in DOMAIN sources : sources[i].type # "local"
        /\ \A d \in RefSources(config) :
              d.type = "local" => fs[d.path] = fsAtStart[d.path]
        /\ ((\A d \in RefSources(config) : ~Remote(d)) =>
               /\ fs = fsAtStart
               /\ DownloadResult(shouldConfigureWp, srcState) = "ok")

C5_Witness ==
    /\ calls.download = 1
    /\ LocalL \in RefSources(config)
    /\ \E i \in DOMAIN srcState : srcState[i] = "ok"
    /\ fs # fsAtStart

(***************************************************************************)
(* Properties of the database and configuration steps of `start`.          *)
(***************************************************************************)
Configuring ==
    \E e \in EnvNames : calls.configure[e] > 0 \/ cfgTask[e].state # "idle"

\* C6: when the database refuses connections for the first SlowStart
\* seconds (or fewer), the run does not fail at the readiness loop, the loop
\* makes fewer than 30 retries, both environments are configured and the
\* run fails only if a later external call fails.
C6_SlowDatabaseTolerated ==
    (calls.dbCheck >= 1 /\ dbReadyAt <= SlowStart) =>
        /\ ~(pc = "failed" /\ failedAt = "db")
        /\ calls.dbCheck - 1 < DbRetryTimes
        /\ calls.dbCheck - 1 <= dbReadyAt + 1
        /\ (pc = "failed" => faulty /\ failedAt \in {"configure", "setCache"})
        /\ (pc \in {"setCache", "done"} =>
               /\ dbOk
               /\ \A e \in EnvNames : cfgTask[e].state = "ok")

C6_Witness ==
    /\ dbReadyAt = SlowStart
    /\ SlowStart > 0
    /\ pc = "done"
    /\ calls.dbCheck = SlowStart + 2

\* C7: configureWordPress is called only after a checkDatabaseConnection of
\* the same run has resolved; when the first check and every retry fail,
\* the run fails and configureWordPress is never called.
C7_ConfigureAfterDatabase ==
    /\ (Configuring => dbOk)
    /\ ((calls.dbCheck = 1 + DbRetryTimes /\ ~dbOk) =>
           pc = "failed" /\ failedAt = "db")
    /\ ((pc = "failed" /\ failedAt = "db") =>
           /\ ~dbOk
           /\ ~Configuring
           /\ calls.setCache = 0)

C7_Witness ==
    /\ calls.configure["tests"] > 0
    /\ dbOk
    /\ calls.dbCheck > 1

\* what C8 says of the connection checks: one check, retried only when it
\* fails, at most 30 more times, a second apart; the run fails when every
\* attempt fails
DatabaseChecks ==
    /\ calls.dbCheck <= 1 + DbRetryTimes
    /\ (calls.dbCheck > 1 => dbReadyAt > 0)
    /\ (pc = "dbRetry" => clock = dbTries * DbRetryDelay)
    /\ calls.settle <= 1
    /\ (pc = "settle" => dbOk /\ calls.settle = 0)
    /\ ((calls.dbCheck = 1 + DbRetryTimes /\ ~dbOk) =>
           pc = "failed" /\ failedAt = "db")

\* C8 as claimed: the checks are as above, and exactly one settle delay
\* follows the first successful check before configuration starts.
C8_Original ==
    /\ DatabaseChecks
    /\ (Configuring => calls.settle = 1)

\* C8, amended: the checks are as above; the settle delay follows the first
\* successful check exactly when that check was a retry, and there is no
\* settle delay when the first check of the run succeeds.
C8_SettleAfterRetryOnly ==
    /\ DatabaseChecks
    /\ (Configuring => calls.settle = IF calls.dbCheck > 1 THEN 1 ELSE 0)
    /\ (Configuring => clock = IF calls.dbCheck > 1
                               THEN dbReadyAt + SettleDelay ELSE 0)

C8_Witness ==
    /\ pc = "configure"
    /\ calls.dbCheck > 1
    /\ calls.settle = 1

\* C9: each environment's configureWordPress is called at most twice; an
\* environment whose retry is still running can make its attempt whatever
\* the state of the other; an environment fails only after two failed
\* attempts; and the run fails at this step exactly when an environment has
\* failed both attempts.
C9_ConfigureIndependently ==
    /\ \A e \in EnvNames : calls.configure[e] <= ConfigureTimes
    /\ \A e \in EnvNames :
          cfgTask[e].state = "running" => ENABLED ConfigureWordPress(e)
    /\ \A e \in EnvNames :
          cfgTask[e].state = "err" => calls.configure[e] = ConfigureTimes
    /\ ((pc = "failed" /\ failedAt = "configure") <=>
           \E e \in EnvNames : cfgTask[e].state = "err")
    /\ (pc \in {"setCache", "done"} /\ shouldConfigureWp =>
           \A e \in EnvNames : cfgTask[e].state = "ok")

C9_Witness ==
    /\ pc = "failed"
    /\ failedAt = "configure"
    /\ cfgTask["development"].state = "err"
    /\ cfgTask["tests"].state = "ok"
    /\ calls.configure["tests"] = ConfigureTimes

Running == pc \notin {"idle", "done", "failed"}

\* C10: when no external operation fails and the database is ready within
\* the retries, a run reaches "done", whether it re-provisions or not; every
\* run ends, and it ends done or failed.
C10_RunsTerminate ==
    /\ (Running /\ ~faulty) ~> (pc = "done")
    /\ Running ~> (pc \in {"done", "failed"})

C10_Witness ==
    /\ pc = "done"
    /\ ~faulty
    /\ shouldConfigureWp
    /\ calls.dbCheck = DbRetryTimes + 1

(***************************************************************************)
(* Properties of the order of the steps of `start`.                        *)
(***************************************************************************)
\* upOne or downloadSources has been called in the current run
Launched ==
    \/ calls.upOne > 0
    \/ calls.download > 0
    \/ mysqlTask # "idle"
    \/ sources # <<>>

\* C11: in a run that re-provisions, stop() has been called once and has
\* resolved (no service is up any more) before upOne( 'mysql' ) is called
\* and before downloadSources is called; while stop() is awaited, and when
\* it rejects, neither has been called; a run that does not re-provision
\* never calls stop().
C11_StopBeforeLaunch ==
    Checked =>
        /\ calls.stop <= 1
        /\ (shouldConfigureWp /\ Launched =>
               calls.stop = 1 /\ failedAt # "stop")
        /\ (shouldConfigureWp /\ pc = "launch" =>
               calls.stop = 1 /\ services = {})
        /\ (pc = "stop" => calls.stop = 0 /\ ~Launched)
        /\ (failedAt = "stop" => calls.stop = 1 /\ ~Launched)
        /\ (~shouldConfigureWp => calls.stop = 0)

C11_Witness ==
    /\ prev.result = "done"
    /\ shouldConfigureWp
    /\ calls.stop = 1
    /\ mysqlTask = "ok"
    /\ \E i \in DOMAIN srcState : srcState[i] = "ok"

(***************************************************************************)
(* Properties of buildDockerComposeConfig.                                 *)
(***************************************************************************)
PortVariable(e) ==
    IF e = "development" THEN "WP_ENV_PORT" ELSE "WP_ENV_TESTS_PORT"

\* the port docker-compose is to publish for an environment: the value of
\* its variable when that is set, its configured port otherwise
EffectivePort(e) ==
    IF environ[PortVariable(e)] # "" THEN environ[PortVariable(e)]
    ELSE ToString(config.env[e].port)

\* C12: the port binding generated for an environment is
\* `${WP_ENV_PORT:-<port>}:80` (WP_ENV_TESTS_PORT for tests) with the
\* configured port of that environment as the default; its host part is
\* never a bare port; and the port docker-compose publishes is the value of
\* the variable when it is set, the configured port otherwise.
C12_PortOverridable ==
    /\ (compose # NoCompose =>
           \A e \in EnvNames :
              LET ports == compose.services[ServiceOf(e)].ports
              IN  /\ Len(ports) = 1
                  /\ ports[1] = <<"${", PortVariable(e), ":-",
                                  ToString(config.env[e].port), "}", ":",
                                  "80">>
                  /\ \A i \in 1..Len(ports) : Head(ports[i]) = "${")
    /\ (published # NoPublished =>
           \A e \in EnvNames :
              published[ServiceOf(e)] = <<EffectivePort(e), ":", "80">>)

C12_Witness ==
    /\ published # NoPublished
    /\ config.env["development"].port = 4013
    /\ environ["WP_ENV_PORT"] = "9999"
    /\ published["wordpress"] = <<"9999", ":", "80">>
    /\ environ["WP_ENV_TESTS_PORT"] = ""
    /\ published["tests-wordpress"] = <<"8889", ":", "80">>

\* the volumes generated for the services of an environment
MountsOf(e) == compose.services[ServiceOf(e)].volumes

\* development and tests have the same local core source
SharedLocalCore ==
    /\ compose # NoCompose
    /\ config.env["development"].coreSource.type = "local"
    /\ config.env["tests"].coreSource.type = "local"
    /\ config.env["development"].coreSource.path
          = config.env["tests"].coreSource.path

EntryBinding(core, entry) ==
    core.path \o "/" \o entry \o ":/var/www/html/" \o entry

ExcludedEntries == {"wp-config.php", "wp-config-sample.php", "wp-content"}

Positions(seq, x) == {i \in 1..Len(seq) : seq[i] = x}

\* C13: when development and tests have the same local core path, the
\* volumes of tests hold no `<core path>:/var/www/html` (the core binding of
\* development); the first is `<testsPath>:/var/www/html`; next to it, in
\* the order of the listing, comes one `<core path>/<entry>:/var/www/html/
\* <entry>` for every entry of the core directory other than wp-config.php,
\* wp-config-sample.php and wp-content; and those three have no binding.
C13_SharedLocalCoreMounts ==
    SharedLocalCore =>
        LET core == config.env["development"].coreSource
            tests == MountsOf("tests")
            kept == SelectSeq(coreDir, LAMBDA f : f \notin ExcludedEntries)
        IN  /\ MountsOf("development")[1] = core.path \o ":/var/www/html"
            /\ Positions(tests, core.path \o ":/var/www/html") = {}
            /\ tests[1] = core.testsPath \o ":/var/www/html"
            /\ Len(tests) > Len(kept)
            /\ \A i \in 1..Len(kept) :
                  /\ tests[1 + i] = EntryBinding(core, kept[i])
                  /\ Positions(tests, EntryBinding(core, kept[i])) = {1 + i}
            /\ \A f \in ExcludedEntries :
                  Positions(tests, EntryBinding(core, f)) = {}

C13_Witness ==
    /\ SharedLocalCore
    /\ coreDir = EntryOrder
    /\ MountsOf("tests")[1] = "work/tests-L:/var/www/html"
    /\ MountsOf("tests")[2] = "L/index.php:/var/www/html/index.php"
    /\ MountsOf("tests")[3] = "L/wp-admin:/var/www/html/wp-admin"

\* the core sources of development and tests are source-equivalent
SharedCore ==
    /\ config.env["development"].coreSource # NoSource
    /\ config.env["tests"].coreSource # NoSource
    /\ config.env["development"].coreSource.path
          = config.env["tests"].coreSource.path

\* the core binding getMounts gives the tests environment
OwnCoreBinding ==
    (IF config.env["tests"].coreSource # NoSource
     THEN config.env["tests"].coreSource.path
     ELSE "tests-wordpress") \o ":/var/www/html"

TestsVariantBinding ==
    config.env["development"].coreSource.testsPath \o ":/var/www/html"

\* C15 as claimed: the first volume of tests is the tests variant of the
\* core exactly when the two core sources are source-equivalent and local;
\* in every other case (equivalent git or zip sources, different sources,
\* null) it is the core binding of the tests environment itself.
C15_Original ==
    compose # NoCompose =>
        IF SharedCore /\ config.env["development"].coreSource.type = "local"
        THEN MountsOf("tests")[1] = TestsVariantBinding
        ELSE MountsOf("tests")[1] = OwnCoreBinding

\* C15, amended: the first volume of tests is the tests variant of the core
\* exactly when the two core sources are source-equivalent, whatever their
\* type; the bindings of the entries of the core directory follow it only
\* for a local source; when the sources are not equivalent, or null, the
\* volumes of tests are those of getMounts, the first of them the core
\* binding of the tests environment itself.
C15_SharedCoreSubstitution ==
    compose # NoCompose =>
        LET tests == MountsOf("tests")
            core == config.env["development"].coreSource
            own == GetMounts(config.env["tests"], "tests-wordpress")
        IN  /\ SharedCore => tests[1] = TestsVariantBinding
            /\ SharedCore /\ core.type # "local" =>
                  tests = <<TestsVariantBinding>> \o Tail(own)
            /\ SharedCore /\ core.type = "local" =>
                  /\ Len(tests) >= Len(own)
                  /\ \A i \in 2..Len(tests) - Len(own) + 1 :
                        \E f \in Range(coreDir) :
                           tests[i] = EntryBinding(core, f)
                  /\ \A i \in 2..Len(own) :
                        tests[Len(tests) - Len(own) + i] = own[i]
            /\ ~SharedCore => tests = own /\ tests[1] = OwnCoreBinding

C15_Witness ==
    /\ compose # NoCompose
    /\ config.env["development"].coreSource = GitA1
    /\ config.env["tests"].coreSource = GitA1
    /\ MountsOf("tests")[1] = "work/tests-A#r1:/var/www/html"
    /\ MountsOf("development")[1] = "work/A#r1:/var/www/html"

(***************************************************************************)
(* Properties of downloadSource.                                           *)
(***************************************************************************)
\* a step of the call has rejected, caught or not
Failed(a, step) == \E i \in 1..Len(a.failures) : a.failures[i] = step

\* the call is of downloadGitSource and no library call fails for a reason
\* of its own
GitCall == acq.source.type = "git" /\ acq.run > 0 /\ ~faulty

\* C14: downloadSource called twice in sequence for one git source resolves
\* both times.  A call that finds no repository at source.path clones; a call
\* that finds one (as does a call that follows a resolved call) has its
\* clone rejected, the rejection is caught, and it opens the repository and
\* fetches; no call rejects with the error of the clone; and when a call has
\* resolved the repository is checked out at source.ref.
C14_GitAcquisitionTwice ==
    /\ acq.rejection.cause # "clone"
    /\ ((/\ acq.source.type = "git"
         /\ acq.log # <<>>
         /\ acq.log[Len(acq.log)].result = "done") => acq.found)
    /\ (GitCall =>
           /\ acq.pc # "failed"
           /\ acq.rejection = NoError
           /\ \A i \in 1..Len(acq.log) : acq.log[i].result = "done"
           /\ (acq.pc \notin {"clone", "open"} =>
                 /\ dest.repo
                 /\ acq.attempts["clone"] = 1
                 /\ acq.attempts["open"] = IF acq.found THEN 1 ELSE 0
                 /\ Failed(acq, "clone") <=> acq.found)
           /\ (acq.pc = "done" =>
                 /\ acq.attempts["fetch"] = 1
                 /\ dest.head.at = acq.source.ref))

C14_Witness ==
    /\ GitCall
    /\ acq.run = 2
    /\ acq.pc = "done"
    /\ acq.log[1].result = "done"
    /\ ~acq.log[1].found
    /\ acq.log[1].attempts["open"] = 0
    /\ acq.found
    /\ acq.attempts["open"] = 1
    /\ dest.head.at = acq.source.ref

\* C20 as claimed: a downloadSource call that fails rejects with an error
\* that is tagged with the source of the call and carries the error of the
\* step that failed, and no step of a call is attempted more than once.
C20_Original ==
    /\ (acq.pc = "failed" =>
           /\ acq.rejection.name = "AcquisitionError"
           /\ acq.rejection.source = acq.source
           /\ Failed(acq, acq.rejection.cause))
    /\ \A s \in Steps \ {"copyDir"} : acq.attempts[s] <= 1
    /\ acq.attempts["copyDir"] <= Cardinality(ArchiveEntries)

(***************************************************************************)
(* Properties of the steps of `start` that follow the acquisition.         *)
(***************************************************************************)
\* the run has gone past the permission step of start.js:107-113
PastPermissionStep ==
    \/ pc \in {"db", "dbRetry", "settle", "configure", "setCache"}
    \/ pc = "done" /\ shouldConfigureWp
    \/ pc = "failed" /\ failedAt \in {"db", "configure", "setCache"}

\* makeContentDirectoriesWritable is called for both environments or for
\* none
PermissionCalls(e) == IF calls.perms = 2 THEN 1 ELSE 0

\* C16 as claimed: a run that re-provisions calls
\* makeContentDirectoriesWritable for an environment exactly when the core
\* source of that environment is a remote (git or zip) source, whatever the
\* core source of the other environment.
C16_Original ==
    PastPermissionStep =>
        \A e \in EnvNames :
           PermissionCalls(e) = IF Remote(config.env[e].coreSource)
                                THEN 1 ELSE 0

\* the run has gone past the await of the first Promise.all
PastPromiseAllUp ==
    \/ pc \in {"setup", "upMany", "perms", "db", "dbRetry", "settle",
               "configure", "setCache", "done"}
    \/ pc = "failed" /\ failedAt \notin {"initConfig", "stop", "up"}

\* C17: in a run that re-provisions, upOne( 'mysql' ) and downloadSources are
\* called by one step, so that the promise of mysql and the promise of every
\* unique source are pending together; each pending promise can settle
\* whatever the state of the others (a download before mysql is up, mysql
\* before any download); and the run goes on to setupWordPressDirectories
\* and upMany only when mysql and every download have resolved.
C17_UpAndDownloadTogether ==
    Checked /\ shouldConfigureWp =>
        /\ calls.upOne = calls.download
        /\ (mysqlTask = "idle" <=> calls.download = 0)
        /\ (calls.download = 1 =>
               /\ sources = UniqueSources(config)
               /\ DOMAIN srcState = DOMAIN sources)
        /\ (mysqlTask = "pending" => ENABLED MysqlUp)
        /\ \A i \in DOMAIN srcState :
              srcState[i] = "pending" => ENABLED DownloadSource(i)
        /\ (PastPromiseAllUp =>
               /\ mysqlTask = "ok"
               /\ \A i \in DOMAIN srcState : srcState[i] = "ok")
        /\ (calls.setup > 0 \/ calls.upMany > 0 => PastPromiseAllUp)

C17_Witness ==
    /\ shouldConfigureWp
    /\ pc = "up"
    /\ mysqlTask = "pending"
    /\ Len(srcState) = 2
    /\ \A i \in DOMAIN srcState : srcState[i] = "ok"

\* upMany( [ 'wordpress', 'tests-wordpress' ] ) has been called, or is the
\* next call
AtUpMany == calls.upMany > 0 \/ pc = "upMany"

\* C18: upMany( [ 'wordpress', 'tests-wordpress' ] ) is called only after
\* upOne( 'mysql' ) has resolved, and in a run that re-provisions only after
\* every downloadSource and setupWordPressDirectories have resolved as well;
\* when upOne or a downloadSource rejects, the run fails at the Promise.all
\* and calls neither upMany nor configureWordPress nor setCache, and the
\* cache entry stays as it was.
C18_UpManyAfterUp ==
    Checked =>
        /\ (AtUpMany => mysqlTask = "ok")
        /\ (AtUpMany /\ shouldConfigureWp =>
               /\ calls.download = 1
               /\ \A i \in DOMAIN srcState : srcState[i] = "ok"
               /\ calls.setup = 1
               /\ ~(pc = "failed" /\ failedAt = "setup"))
        /\ (mysqlTask = "err" \/ (\E i \in DOMAIN srcState :
                                     srcState[i] = "err") =>
               /\ pc = "failed"
               /\ failedAt = "up"
               /\ calls.setup = 0
               /\ calls.upMany = 0
               /\ (shouldConfigureWp => services \cap EnvServices = {})
               /\ ~Configuring
               /\ calls.setCache = 0
               /\ cache = cacheAtStart)

C18_Witness ==
    /\ pc = "failed"
    /\ failedAt = "up"
    /\ mysqlTask = "ok"
    /\ \E i \in DOMAIN srcState : srcState[i] = "err"
    /\ \E i \in DOMAIN srcState : srcState[i] = "ok"
    /\ calls.upMany = 0

\* C19: a run calls stop() at most once, before upOne and downloadSources,
\* and no step takes a service down except that stop(); a rejection of
\* upMany, of the permission step, the exhaustion of the connection checks
\* and the exhaustion of the configuration attempts each end the run as
\* failed at that step, with every service that had been brought up still
\* up.
C19_NoTeardownOnFailure ==
    /\ [](/\ calls.stop <= 1
          /\ (calls.upMany > 0 /\ ~(AllServices \subseteq services) =>
                 pc = "failed" /\ failedAt = "upMany")
          /\ (pc = "failed" /\ failedAt = "upMany" =>
                 "mysql" \in services /\ mysqlTask = "ok")
          /\ (pc = "failed" /\ failedAt \in {"perms", "db", "configure",
                                             "setCache"} =>
                 AllServices \subseteq services))
    /\ [][/\ (~(services \subseteq services') =>
                 pc = "stop" /\ pc' = "launch")
          /\ (calls'.stop # calls.stop => pc = "stop" \/ pc' = "idle")
          /\ (pc = "failed" => pc' \in {"failed", "idle"})]_vars

C19_Witness ==
    /\ pc = "failed"
    /\ failedAt = "db"
    /\ calls.stop = 1
    /\ AllServices \subseteq services

\* the call is of downloadGitSource and has gone past the resolution of the
\* reference to check out
PastGetReference ==
    /\ acq.source.type = "git"
    /\ acq.pc \in {"checkoutRef", "setHeadDetached", "done", "failed"}
    /\ acq.attempts["getFetchHead"] > 0

\* C21: getReference( 'FETCH_HEAD' ) is called first; getReference(
\* source.ref ) is called exactly when that call has rejected; checkoutRef is
\* called with the reference that was obtained; setHeadDetached( source.ref )
\* is called only when both getReference calls have rejected or checkoutRef
\* has rejected; when it resolves the call resolves, with no error, the head
\* detached at source.ref and a last progress of 1; when it rejects the call
\* rejects with its error.
C21_RefResolutionOrder ==
    /\ (acq.attempts["getRef"] > 0 \/ acq.attempts["checkoutRef"] > 0
           \/ acq.attempts["setHeadDetached"] > 0 =>
           acq.attempts["getFetchHead"] = 1)
    /\ (acq.attempts["getRef"] > 0 => Failed(acq, "getFetchHead"))
    /\ (PastGetReference =>
           (acq.attempts["getRef"] = 1 <=> Failed(acq, "getFetchHead")))
    /\ (acq.attempts["checkoutRef"] > 0 =>
           /\ acq.reference \in {"FETCH_HEAD", acq.source.ref}
           /\ (acq.reference = "FETCH_HEAD" <=>
                  ~Failed(acq, "getFetchHead")))
    /\ (acq.attempts["setHeadDetached"] > 0 \/ acq.pc = "setHeadDetached" =>
           \/ Failed(acq, "getFetchHead") /\ Failed(acq, "getRef")
           \/ Failed(acq, "checkoutRef"))
    /\ (acq.pc = "done" /\ acq.attempts["setHeadDetached"] = 1 =>
           /\ acq.rejection = NoError
           /\ dest.head = [at |-> acq.source.ref, detached |-> TRUE]
           /\ acq.progress[Len(acq.progress)] = Whole(1))
    /\ (Failed(acq, "setHeadDetached") =>
           /\ acq.pc = "failed"
           /\ acq.rejection = RawError("setHeadDetached"))

C21_Witness ==
    /\ ~faulty
    /\ acq.pc = "done"
    /\ Failed(acq, "getFetchHead")
    /\ Failed(acq, "getRef")
    /\ acq.attempts["checkoutRef"] = 0
    /\ acq.attempts["setHeadDetached"] = 1
    /\ dest.head.detached

\* a number of the interval [0, 1]
InUnitInterval(x) == x.den > 0 /\ 0 <= x.num /\ x.num <= x.den

\* the last number handed to onProgress by the current call
LastProgress == acq.progress[Len(acq.progress)]

\* C22 (as stated): every number a git acquisition hands to onProgress lies
\* in [0, 1], also when totalObjects is 0; the first one is 0; the last one
\* of a call that resolved is 1, and the last one of a call that rejected is
\* not 1.
C22_Original ==
    acq.source.type = "git" /\ acq.pc # "idle" =>
       /\ \A k \in 1..Len(acq.progress) : InUnitInterval(acq.progress[k])
       /\ acq.progress[1] = Whole(0)
       /\ (acq.pc = "done" => LastProgress = Whole(1))
       /\ (acq.pc = "failed" => LastProgress # Whole(1))

\* the call is of downloadZipSource
ZipCall == acq.source.type = "zip" /\ acq.pc # "idle"

\* C23: downloadZipSource writes source.path + '.zip', extracts it to
\* source.path + '.temp' only after the download, calls rimraf( zipName ) and
\* the copies only after the extraction has resolved, and calls
\* rimraf( dirName ) only after rimraf( zipName ) and every copy have
\* resolved; when the call has resolved neither the archive nor the scratch
\* directory exists and every entry of the archive is in the destination;
\* no step changes a file of the destination that is not an entry of the
\* archive.
C23_ZipPhases ==
    /\ [](ZipCall =>
            /\ (acq.attempts["extractZip"] > 0 =>
                   acq.attempts["pipeline"] = 1 /\ ~Failed(acq, "pipeline"))
            /\ (acq.attempts["rimrafZip"] > 0
                   \/ acq.tasks["rimrafZip"] # "idle"
                   \/ acq.attempts["copyDir"] > 0 =>
                   acq.attempts["extractZip"] = 1
                      /\ ~Failed(acq, "extractZip"))
            /\ (acq.pc \in {"pipeline", "extractZip"} => dest.zip)
            /\ (acq.attempts["copyDir"] > 0 => ~Failed(acq, "readdir"))
            /\ (\E t \in ZipTasks : acq.tasks[t] = "pending")
                   /\ acq.pc # "failed" => dest.temp
            /\ (acq.attempts["rimrafTemp"] > 0 \/ acq.pc = "rimrafTemp" =>
                   \A t \in ZipTasks : acq.tasks[t] = "ok")
            /\ (acq.pc = "done" =>
                   /\ ~dest.zip
                   /\ ~dest.temp
                   /\ \A f \in ArchiveEntries : dest.files[f] = "new"))
    /\ [][\A f \in DestFiles \ ArchiveEntries :
             dest'.files[f] = dest.files[f]]_vars

C23_Witness ==
    /\ ZipCall
    /\ acq.pc = "done"
    /\ acq.run = 1
    /\ dest.files["kept"] = "old"
    /\ dest.files["x"] = "new"
    /\ ~dest.zip
    /\ ~dest.temp

(***************************************************************************)
(* Properties of getMounts and of the volumes of the topology.             *)
(***************************************************************************)
\* the volumes of the service of e are the list getMounts returned for e:
\* those of development always, those of tests when its core binding has
\* not been substituted
MountsAreGetMounts(e) ==
    /\ compose # NoCompose
    /\ e = "tests" => ~SharedCore

\* C24: the list getMounts returns for an environment has 1 + the number of
\* mappings + the number of plugins + the number of themes bindings: first
\* the core (its path, or the name of the default volume) at /var/www/html,
\* then each mapping at /var/www/html/<wpDir>, then each plugin at
\* /var/www/html/wp-content/plugins/<basename>, then each theme at
\* /var/www/html/wp-content/themes/<basename>, plugins and themes in the
\* order of the configuration.
C24_GetMountsOrder ==
    \A e \in EnvNames :
       MountsAreGetMounts(e) =>
          LET c == config.env[e]
              mounts == MountsOf(e)
              nm == Len(c.mappings)
              np == Len(c.pluginSources)
              nt == Len(c.themeSources)
          IN  /\ Len(mounts) = 1 + nm + np + nt
              /\ mounts[1] =
                    (IF c.coreSource # NoSource THEN c.coreSource.path
                     ELSE ServiceOf(e)) \o ":/var/www/html"
              /\ \A i \in 1..nm :
                    mounts[1 + i] =
                       c.mappings[i].source.path \o ":/var/www/html/"
                          \o c.mappings[i].wpDir
              /\ \A i \in 1..np :
                    mounts[1 + nm + i] =
                       c.pluginSources[i].path
                          \o ":/var/www/html/wp-content/plugins/"
                          \o c.pluginSources[i].basename
              /\ \A i \in 1..nt :
                    mounts[1 + nm + np + i] =
                       c.themeSources[i].path
                          \o ":/var/www/html/wp-content/themes/"
                          \o c.themeSources[i].basename

C24_Witness ==
    /\ compose # NoCompose
    /\ ~SharedCore
    /\ config.env["tests"].coreSource = NoSource
    /\ MountsOf("tests") =
          <<"tests-wordpress:/var/www/html",
            "M:/var/www/html/wp-content/mu-plugins",
            "L:/var/www/html/wp-content/plugins/L",
            "work/Z.zip:/var/www/html/wp-content/plugins/Z",
            "work/A#r2:/var/www/html/wp-content/themes/A">>

(***************************************************************************)
(* Deduplication in downloadSources.                                       *)
(***************************************************************************)
\* downloadSource is called for a descriptor with the path and the ref of d
AcquiredFor(d) ==
    \E i \in DOMAIN sources :
       sources[i].path = d.path /\ sources[i].ref = d.ref

\* C25 (as stated): for every git or zip descriptor the core, plugin or
\* theme fields of either environment refer to, one call of downloadSources
\* calls downloadSource for a descriptor with the same path and the same
\* ref; two git descriptors of one repository with different refs are both
\* acquired.
C25_Original ==
    calls.download = 1 =>
        \A d \in RefSources(config) : Remote(d) => AcquiredFor(d)

\* the services that mount the volumes of an environment
ServicesOf(e) ==
    IF e = "development" THEN {"wordpress", "cli"}
    ELSE {"tests-wordpress", "tests-cli", "phpunit"}

\* C26: when the core source of an environment is null, the core binding of
\* each of its services is the named volume of the environment ('wordpress'
\* for development, 'tests-wordpress' for tests) at /var/www/html, and that
\* volume is declared in the top-level volumes of the topology, whatever the
\* core source of the other environment is.
C26_DefaultVolumesDeclared ==
    compose # NoCompose =>
        \A e \in EnvNames :
           config.env[e].coreSource = NoSource =>
              /\ \A s \in ServicesOf(e) :
                    compose.services[s].volumes[1]
                       = ServiceOf(e) \o ":/var/www/html"
              /\ ServiceOf(e) \in compose.volumes

C26_Witness ==
    /\ compose # NoCompose
    /\ config.env["development"].coreSource = GitA1
    /\ config.env["tests"].coreSource = NoSource
    /\ compose.services["tests-cli"].volumes[1]
          = "tests-wordpress:/var/www/html"
    /\ "tests-wordpress" \in compose.volumes

\* what can be the host side of a binding at /var/www/html
CoreHosts ==
    {"wordpress", "tests-wordpress"}
        \cup {s.path : s \in TopologyCores \ {NoSource}}
        \cup {s.testsPath : s \in TopologyCores \ {NoSource}}

\* the host sides of the bindings at /var/www/html of the service of e
CoreHostsOf(e) ==
    {h \in CoreHosts :
        \E i \in DOMAIN MountsOf(e) :
           MountsOf(e)[i] = h \o ":/var/www/html"}

\* C27: in every topology the service of each environment has one binding
\* at /var/www/html, and the host side of the one of tests is not the host
\* side of the one of development: two volumes for null cores, the path of
\* the core and its tests variant for source-equivalent cores, the two paths
\* for different cores.
C27_CoreHostsDiffer ==
    compose # NoCompose =>
        /\ \A e \in EnvNames : Cardinality(CoreHostsOf(e)) = 1
        /\ CoreHostsOf("development") \cap CoreHostsOf("tests") = {}

C27_Witness ==
    /\ compose # NoCompose
    /\ config.env["development"].coreSource = ZipZ
    /\ config.env["tests"].coreSource = ZipZ
    /\ CoreHostsOf("development") = {"work/Z.zip"}
    /\ CoreHostsOf("tests") = {"work/tests-Z.zip"}

\* C28: the volumes of the development services are the list getMounts
\* returned for development, with or without the substitution; the volumes
\* of tests are the core bindings (the binding at /var/www/html, then the
\* bindings of entries of the core directory, if any) followed by the
\* mapping, plugin and theme bindings getMounts returned for tests, all of
\* them and in the same order; without the substitution they are the list
\* of getMounts itself; tests-wordpress and tests-cli mount that list and
\* phpunit mounts it followed by its uploads volume.
C28_SubstitutionFrame ==
    compose # NoCompose =>
        LET dev == GetMounts(config.env["development"], "wordpress")
            own == GetMounts(config.env["tests"], "tests-wordpress")
            tests == MountsOf("tests")
            k == Len(tests) - Len(own)
        IN  /\ MountsOf("development") = dev
            /\ compose.services["cli"].volumes = dev
            /\ k >= 0
            /\ SubSeq(tests, k + 2, Len(tests)) = Tail(own)
            /\ CoreHostsOf("tests") # {}
            /\ tests[1] \in {h \o ":/var/www/html" : h \in CoreHostsOf("tests")}
            /\ \A i \in 2..k + 1 :
                  \E f \in Range(coreDir) :
                     tests[i] = EntryBinding(
                                   config.env["development"].coreSource, f)
            /\ (~SharedCore => tests = own)
            /\ compose.services["tests-cli"].volumes = tests
            /\ compose.services["phpunit"].volumes =
                  tests \o
                     <<"phpunit-uploads:/var/www/html/wp-content/uploads">>

C28_Witness ==
    /\ SharedLocalCore
    /\ coreDir = EntryOrder
    /\ Len(config.env["tests"].mappings) = 1
    /\ Len(config.env["tests"].pluginSources) = 2
    /\ Len(MountsOf("tests")) = 7
    /\ MountsOf("tests")[4] = "M:/var/www/html/wp-content/mu-plugins"
    /\ MountsOf("tests")[7] = "work/A#r2:/var/www/html/wp-content/themes/A"
    /\ Len(compose.services["phpunit"].volumes) = 8
    /\ Len(MountsOf("development")) = 3

====
